---- MODULE Spec2Model ----
(***************************************************************************)
(* Model of the product inventory service: the sort/search core            *)
(* (compareByKey, quickSort, binarySearch of src/utils) as pure functions   *)
(* applied to bounded inputs, and the request handlers of                   *)
(* src/controllers/productController.js over the products collection, one   *)
(* request at a time.                                                       *)
(*                                                                          *)
(* JavaScript values are tagged records: t is the typeof-kind, n the number *)
(* (integers; NaN is left out: the store's Number cast and searchProduct's  *)
(* Number.isNaN guard keep it away from the core), s the string as a        *)
(* sequence of UTF-16 code units.                                           *)
(***************************************************************************)
EXTENDS Integers, Sequences, FiniteSets, Bags, TLC

\* ------------------------------------------------------------------ bounds
\* Longest input array.
MaxLen == 3
\* Number values are 5, 10, ..., 5 * MaxNum.
MaxNum == 2

\* ------------------------------------------------------------------ values
Num(i) == [t |-> "number", n |-> i, s |-> <<>>]
Text(str) == [t |-> "string", n |-> 0, s |-> str]
Undef == [t |-> "undefined", n |-> 0, s |-> <<>>]
Null == [t |-> "null", n |-> 0, s |-> <<>>]

\* "Apple", "apple", "10", "" as code units.
StrApple == <<65, 112, 112, 108, 101>>
StrApple_lc == <<97, 112, 112, 108, 101>>
StrTen == <<49, 48>>
StrEmpty == << >>

NumVals == {Num(5 * i) : i \in 1..MaxNum}
TextVals == {Text(StrApple), Text(StrApple_lc), Text(StrTen), Text(StrEmpty)}
Values == NumVals \cup TextVals \cup {Undef, Null}

Keys == {"name", "price"}
Orders == {"asc", "desc"}

\* An object with one own property, as the unit tests build them ({name: v});
\* id is the object's identity (its position in the input array).
Obj(i, f, v) == [ref |-> "object", id |-> i, field |-> f, val |-> v]
\* null and undefined where a record is expected.
NullRec == [ref |-> "null", id |-> 0, field |-> "", val |-> Undef]
UndefRec == [ref |-> "undefined", id |-> 0, field |-> "", val |-> Undef]

\* ------------------------------------------------------------ compareByKey
\* a?.[key]: undefined for a null/undefined record or a missing property.
Get(a, key) ==
  IF a.ref # "object" THEN Undef
  ELSE IF a.field = key THEN a.val ELSE Undef

\* Variant: String(v) without the ?? "" fallback.
Coalesce_missing(v) == v

\* v ?? "": null and undefined become the empty string.
Coalesce(v) == IF v.t \in {"undefined", "null"} THEN Text(StrEmpty) ELSE v

\* String(n) for an integer n: its decimal digits, "-" first when negative.
RECURSIVE Decimal(_)
Decimal(n) ==
  IF n < 0 THEN <<45>> \o Decimal(-n)
  ELSE IF n < 10 THEN <<48 + n>>
  ELSE Decimal(n \div 10) \o <<48 + (n % 10)>>

\* String(v)
StringOf(v) ==
  CASE v.t = "number" -> Decimal(v.n)
    [] v.t = "string" -> v.s
    [] v.t = "undefined" -> <<117, 110, 100, 101, 102, 105, 110, 101, 100>>
    [] v.t = "null" -> <<110, 117, 108, 108>>

\* s.toLowerCase() on the ASCII range.
ToLowerCase(str) ==
  [i \in 1..Len(str) |-> IF str[i] \in 65..90 THEN str[i] + 32 ELSE str[i]]

\* sa < sb on strings: by code unit at the first difference, a proper prefix
\* is smaller.
StrLess(sa, sb) ==
  LET m == IF Len(sa) < Len(sb) THEN Len(sa) ELSE Len(sb)
      d == {i \in 1..m : sa[i] # sb[i]}
  IN IF d = {} THEN Len(sa) < Len(sb)
     ELSE LET i == CHOOSE x \in d : \A y \in d : x <= y
          IN sa[i] < sb[i]

\* String(v ?? "").toLowerCase()
Folded(v) == ToLowerCase(StringOf(Coalesce(v)))

\* Variant: only the left side is lower-cased.
compareByKey_foldsOneSide(a, b, key) ==
  LET va == Get(a, key)
      vb == Get(b, key)
  IN IF va.t = "number" /\ vb.t = "number"
     THEN IF va.n < vb.n THEN -1
          ELSE IF va.n > vb.n THEN 1
          ELSE 0
     ELSE LET sa == Folded(va)
              sb == StringOf(Coalesce(vb))
          IN IF StrLess(sa, sb) THEN -1
             ELSE IF StrLess(sb, sa) THEN 1
             ELSE 0

\* Number(s) for a string of decimal digits (0 for the empty string).
RECURSIVE ParseDigits(_)
ParseDigits(str) ==
  IF Len(str) = 0 THEN 0
  ELSE 10 * ParseDigits(SubSeq(str, 1, Len(str) - 1)) + (str[Len(str)] - 48)

\* Variant: the raw values are compared with < and >, which converts a
\* string of digits to a number when the other side is a number.
compareByKey_rawCompare(a, b, key) ==
  LET va == Get(a, key)
      vb == Get(b, key)
      digits(v) == v.t = "string" /\ \A i \in DOMAIN v.s : v.s[i] \in 48..57
      num(v) == IF v.t = "number" THEN v.n ELSE ParseDigits(v.s)
  IN IF (va.t = "number" /\ (vb.t = "number" \/ digits(vb)))
        \/ (vb.t = "number" /\ digits(va))
     THEN IF num(va) < num(vb) THEN -1
          ELSE IF num(va) > num(vb) THEN 1
          ELSE 0
     ELSE LET sa == Folded(va)
              sb == Folded(vb)
          IN IF StrLess(sa, sb) THEN -1
             ELSE IF StrLess(sb, sa) THEN 1
             ELSE 0

compareByKey(a, b, key) ==
  LET va == Get(a, key)
      vb == Get(b, key)
  IN IF va.t = "number" /\ vb.t = "number"
     THEN IF va.n < vb.n THEN -1
          ELSE IF va.n > vb.n THEN 1
          ELSE 0
     ELSE LET sa == Folded(va)
              sb == Folded(vb)
          IN IF StrLess(sa, sb) THEN -1
             ELSE IF StrLess(sb, sa) THEN 1
             ELSE 0

\* --------------------------------------------------------------- quickSort
\* Variant: const pivot = arr.pop(), which takes the pivot out of the array.
TakePivot_pop(arr) ==
  [pivot |-> arr[Len(arr)], rest |-> SubSeq(arr, 1, Len(arr) - 1)]

\* const pivot = arr[n - 1]: the pivot is read, the array keeps it.
\* rest is the content of arr after the read.
TakePivot(arr) == [pivot |-> arr[Len(arr)], rest |-> arr]

\* Variant: the direction is ignored.
GoesLeft_ignoresOrder(cmp, order) == cmp <= 0

\* Variant: ties go to the right bucket, behind the pivot.
GoesLeft_tiesRight(cmp, order) == IF order = "asc" THEN cmp < 0 ELSE cmp > 0

\* goesLeft = order === "asc" ? cmp <= 0 : cmp >= 0
GoesLeft(cmp, order) == IF order = "asc" THEN cmp <= 0 ELSE cmp >= 0

\* Variant: only strictly smaller (asc) or larger (desc) elements go left,
\* while the right bucket still takes only the elements that do not tie.
PartLeft_dropsTies(arr, pivot, key, order) ==
  SelectSeq(SubSeq(arr, 1, Len(arr) - 1),
            LAMBDA x : LET cmp == compareByKey(x, pivot, key)
                       IN IF order = "asc" THEN cmp < 0 ELSE cmp > 0)

\* The loop over i < n - 1: the elements before the pivot that go left, and
\* those that go right, each in input order.
PartLeft(arr, pivot, key, order) ==
  SelectSeq(SubSeq(arr, 1, Len(arr) - 1),
            LAMBDA x : GoesLeft(compareByKey(x, pivot, key), order))

PartRight(arr, pivot, key, order) ==
  SelectSeq(SubSeq(arr, 1, Len(arr) - 1),
            LAMBDA x : ~GoesLeft(compareByKey(x, pivot, key), order))

\* Variant: return arr, the argument itself, in the base case.
Slice_returnsInput(arr) == [items |-> arr, alias |-> TRUE]

\* arr.slice(): a new array with the same elements; alias says whether the
\* returned array is the argument array itself.
Slice(arr) == [items |-> arr, alias |-> FALSE]

\* Variant: the base case is n <= 2, so a two-element array comes back as is.
RECURSIVE quickSortCall_baseCaseTwo(_, _, _)
quickSortCall_baseCaseTwo(arr, key, order) ==
  IF Len(arr) <= 2
  THEN [ret |-> Slice(arr).items, after |-> arr, calls |-> {<<arr, arr>>},
        alias |-> Slice(arr).alias, cmps |-> 0,
        left |-> << >>, right |-> << >>, depth |-> 1]
  ELSE LET tp == TakePivot(arr)
           L == quickSortCall_baseCaseTwo(PartLeft(arr, tp.pivot, key, order), key, order)
           R == quickSortCall_baseCaseTwo(PartRight(arr, tp.pivot, key, order), key, order)
       IN [ret |-> L.ret \o <<tp.pivot>> \o R.ret,
           after |-> tp.rest,
           calls |-> {<<arr, tp.rest>>} \cup L.calls \cup R.calls,
           alias |-> FALSE,
           cmps |-> (Len(arr) - 1) + L.cmps + R.cmps,
           left |-> PartLeft(arr, tp.pivot, key, order),
           right |-> PartRight(arr, tp.pivot, key, order),
           depth |-> 1 + (IF L.depth >= R.depth THEN L.depth ELSE R.depth)]

\* One call of quickSort on an array: ret is the returned array, after the
\* content of the argument array when the call returns, calls the
\* <<before, after>> contents of the argument of this call and of every
\* recursive call, alias whether the returned array is the argument array
\* itself, cmps the number of compareByKey calls made, left and right the
\* two buckets of this call's partition, depth the deepest nesting of
\* quickSort calls reached, this call counted.
RECURSIVE quickSortCall(_, _, _)
quickSortCall(arr, key, order) ==
  IF Len(arr) <= 1
  THEN [ret |-> Slice(arr).items, after |-> arr, calls |-> {<<arr, arr>>},
        alias |-> Slice(arr).alias, cmps |-> 0,
        left |-> << >>, right |-> << >>, depth |-> 1]
  ELSE LET tp == TakePivot(arr)
           L == quickSortCall(PartLeft(arr, tp.pivot, key, order), key, order)
           R == quickSortCall(PartRight(arr, tp.pivot, key, order), key, order)
       IN [ret |-> L.ret \o <<tp.pivot>> \o R.ret,
           after |-> tp.rest,
           calls |-> {<<arr, tp.rest>>} \cup L.calls \cup R.calls,
           alias |-> FALSE,
           cmps |-> (Len(arr) - 1) + L.cmps + R.cmps,
           left |-> PartLeft(arr, tp.pivot, key, order),
           right |-> PartRight(arr, tp.pivot, key, order),
           depth |-> 1 + (IF L.depth >= R.depth THEN L.depth ELSE R.depth)]

quickSort(arr, key, order) == quickSortCall(arr, key, order).ret

\* What the first argument of quickSort can be.
ArgKinds == {"array", "null", "undefined", "number", "string", "object"}

\* Variant: if (!arr) return [], which lets a number, a string or a plain
\* object through.
IsArray_truthy(kind) == kind \notin {"null", "undefined"}

\* Array.isArray(arr)
IsArray(kind) == kind = "array"

\* order = "asc": the default of the third parameter when it is not passed.
DefaultOrder(o) == IF o = "undefined" THEN "asc" ELSE o

\* quickSort(arg, key, o) for any first argument: kind is what arg is, arr its
\* elements when it is an array. chan is "return" or "throw".
\* Past the guard the body reads arg.length: a TypeError on null and
\* undefined; on a number or a plain object n is undefined, no comparison is
\* made and [undefined] comes back (on a string: an array of its characters,
\* modelled by the same non-empty array).
quickSortEntry(kind, arr, key, o) ==
  IF ~IsArray(kind)
  THEN [chan |-> "return", ret |-> << >>, after |-> arr, calls |-> {},
        alias |-> FALSE, cmps |-> 0, left |-> << >>, right |-> << >>, depth |-> 1]
  ELSE IF kind \in {"null", "undefined"}
  THEN [chan |-> "throw", ret |-> << >>, after |-> arr, calls |-> {},
        alias |-> FALSE, cmps |-> 0, left |-> << >>, right |-> << >>, depth |-> 1]
  ELSE IF kind # "array"
  THEN [chan |-> "return", ret |-> <<UndefRec>>, after |-> arr, calls |-> {},
        alias |-> FALSE, cmps |-> 0, left |-> << >>, right |-> << >>, depth |-> 1]
  ELSE LET c == quickSortCall(arr, key, DefaultOrder(o))
       IN [chan |-> "return", ret |-> c.ret, after |-> c.after,
           calls |-> c.calls, alias |-> c.alias, cmps |-> c.cmps,
           left |-> c.left, right |-> c.right, depth |-> c.depth]

\* ------------------------------------------------------------ binarySearch
\* Variant: while (left < right), which never looks at a one-element window.
RECURSIVE BSLoop_strictWindow(_, _, _, _, _)
BSLoop_strictWindow(arr, key, probe, left, right) ==
  IF ~(left < right) THEN [val |-> NullRec, steps |-> << >>]
  ELSE LET mid == (left + right) \div 2
           cmp == compareByKey(arr[mid + 1], probe, key)
           here == <<[left |-> left, right |-> right, mid |-> mid]>>
       IN IF cmp = 0 THEN [val |-> arr[mid + 1], steps |-> here]
          ELSE LET r == IF cmp < 0
                        THEN BSLoop_strictWindow(arr, key, probe, mid + 1, right)
                        ELSE BSLoop_strictWindow(arr, key, probe, left, mid - 1)
               IN [val |-> r.val, steps |-> here \o r.steps]

\* Variant: on a match the probe is returned instead of the record found.
RECURSIVE BSLoop_returnsProbe(_, _, _, _, _)
BSLoop_returnsProbe(arr, key, probe, left, right) ==
  IF ~(left <= right) THEN [val |-> NullRec, steps |-> << >>]
  ELSE LET mid == (left + right) \div 2
           cmp == compareByKey(arr[mid + 1], probe, key)
           here == <<[left |-> left, right |-> right, mid |-> mid]>>
       IN IF cmp = 0 THEN [val |-> probe, steps |-> here]
          ELSE LET r == IF cmp < 0
                        THEN BSLoop_returnsProbe(arr, key, probe, mid + 1, right)
                        ELSE BSLoop_returnsProbe(arr, key, probe, left, mid - 1)
               IN [val |-> r.val, steps |-> here \o r.steps]

\* Variant: the record looked at is the first of the window, not the middle.
RECURSIVE BSLoop_probesLeftEnd(_, _, _, _, _)
BSLoop_probesLeftEnd(arr, key, probe, left, right) ==
  IF ~(left <= right) THEN [val |-> NullRec, steps |-> << >>]
  ELSE LET mid == left
           cmp == compareByKey(arr[mid + 1], probe, key)
           here == <<[left |-> left, right |-> right, mid |-> mid]>>
       IN IF cmp = 0 THEN [val |-> arr[mid + 1], steps |-> here]
          ELSE LET r == IF cmp < 0
                        THEN BSLoop_probesLeftEnd(arr, key, probe, mid + 1, right)
                        ELSE BSLoop_probesLeftEnd(arr, key, probe, left, mid - 1)
               IN [val |-> r.val, steps |-> here \o r.steps]

\* The while loop on the window [left, right] (0-based, as in the code): val
\* is what it returns, steps the window and midpoint of each iteration, one
\* compareByKey call each.
RECURSIVE BSLoop(_, _, _, _, _)
BSLoop(arr, key, probe, left, right) ==
  IF ~(left <= right) THEN [val |-> NullRec, steps |-> << >>]
  ELSE LET mid == (left + right) \div 2
           cmp == compareByKey(arr[mid + 1], probe, key)
           here == <<[left |-> left, right |-> right, mid |-> mid]>>
       IN IF cmp = 0 THEN [val |-> arr[mid + 1], steps |-> here]
          ELSE LET r == IF cmp < 0
                        THEN BSLoop(arr, key, probe, mid + 1, right)
                        ELSE BSLoop(arr, key, probe, left, mid - 1)
               IN [val |-> r.val, steps |-> here \o r.steps]

\* Variant: a miss is thrown instead of returned.
binarySearch_throwsOnMiss(arr, key, value) ==
  LET r == BSLoop(arr, key, Obj(0, key, value), 0, Len(arr) - 1).val
  IN [chan |-> IF r = NullRec THEN "throw" ELSE "return", val |-> r]

\* chan is the channel the outcome comes through: "return" or "throw".
binarySearch(arr, key, value) ==
  [chan |-> "return",
   val |-> BSLoop(arr, key, Obj(0, key, value), 0, Len(arr) - 1).val]

\* The iterations of that call.
binarySearchSteps(arr, key, value) ==
  BSLoop(arr, key, Obj(0, key, value), 0, Len(arr) - 1).steps

\* ------------------------------------------------------------- the store
\* Products ever created in a run.
MaxProducts == 2

StrBlank == <<32>>
StrPadApple == <<32, 65, 112, 112, 108, 101>>
StrZero == <<48>>
StrFive == <<53>>
StrAsc == <<97, 115, 99>>
StrAscUpper == <<65, 83, 67>>
StrAscMixed == <<65, 115, 99>>
StrDesc == <<100, 101, 115, 99>>
StrDescUpper == <<68, 69, 83, 67>>
StrDescMixed == <<68, 101, 115, 99>>
StrUp == <<117, 112>>

\* A query parameter given more than once (?order=asc&order=desc) is an array.
ArrayVal == [t |-> "array", n |-> 0, s |-> << >>]

\* String.prototype.trim on code units (the whitespace used here is U+0020).
RECURSIVE Trim(_)
Trim(str) ==
  IF Len(str) = 0 THEN str
  ELSE IF str[1] = 32 THEN Trim(Tail(str))
  ELSE IF str[Len(str)] = 32 THEN Trim(SubSeq(str, 1, Len(str) - 1))
  ELSE str

\* Schema setters of name (trim) and category (trim, lowercase).
SetName(str) == Trim(str)

\* Variant: the schema has no lowercase option.
SetCategory_asGiven(str) == Trim(str)

SetCategory(str) == ToLowerCase(Trim(str))

\* Schema validation of a document about to be saved: required strings are
\* non-empty, numbers are at least 0.
SchemaValid(d) ==
  /\ Len(d.name) > 0
  /\ Len(d.category) > 0
  /\ d.price >= 0
  /\ d.quantity >= 0

\* A stored product; updated is FALSE while updatedAt is the creation time
\* and TRUE once an update has stamped a later one.
Doc(i, nm, cat, p, q, u) ==
  [id |-> i, name |-> nm, category |-> cat, price |-> p, quantity |-> q, updated |-> u]

\* doc[k] of a lean document, as a tagged value.
FieldOf(d, k) ==
  CASE k = "name" -> Text(d.name)
    [] k = "category" -> Text(d.category)
    [] k = "price" -> Num(d.price)
    [] k = "quantity" -> Num(d.quantity)
    [] OTHER -> Undef

\* Product.find({}).lean() as seen by quickSort and binarySearch under key k.
Lean(docs, k) == [i \in DOMAIN docs |-> Obj(docs[i].id, k, FieldOf(docs[i], k))]

HasId(docs, i) == \E j \in DOMAIN docs : docs[j].id = i

DocById(docs, i) == docs[CHOOSE j \in DOMAIN docs : docs[j].id = i]

\* A well-formed ObjectId string; -1 stands for a string that is not one.
IsObjectId(i) == i > 0

\* ----------------------------------------------------------- controllers
validKeys == {"name", "category", "price", "quantity"}

\* A JSON response: error says whether the body has an error field, text is
\* its message, docs the products it carries, id the id it names.
Reply(st, err, txt, ds) ==
  [status |-> st, error |-> err, text |-> txt, docs |-> ds, id |-> 0]

NoFx == [find |-> FALSE, quickSort |-> << >>, binarySearch |-> << >>, write |-> FALSE]

\* JavaScript truthiness of a body or query value.
Truthy(v) ==
  CASE v.t \in {"undefined", "null"} -> FALSE
    [] v.t = "string" -> Len(v.s) > 0
    [] v.t = "number" -> v.n # 0
    [] OTHER -> TRUE

Nullish(v) == v.t \in {"undefined", "null"}

\* Number(value) of a route parameter: surrounding spaces dropped, the empty
\* string is 0, decimal digits are their value, anything else is NaN.
NumberOf(str) ==
  LET t == Trim(str)
  IN IF \A i \in DOMAIN t : t[i] \in 48..57
     THEN [nan |-> FALSE, n |-> ParseDigits(t)]
     ELSE [nan |-> TRUE, n |-> 0]

\* quickSort(items, k, ord) on the fetched documents.
SortDocs(docs, k, ord) ==
  LET r == quickSort(Lean(docs, k), k, ord)
  IN [i \in DOMAIN r |-> DocById(docs, r[i].id)]

\* req.query.order || "asc": an absent or empty parameter takes the default.
OrderOrDefault_desc(q) == IF Truthy(q) THEN q ELSE Text(StrDesc)

OrderOrDefault(q) == IF Truthy(q) THEN q ELSE Text(StrAsc)

OrderName(str) == IF str = StrAsc THEN "asc" ELSE "desc"

\* GET /api/products/sort/:key?order=q. A handler's outcome is the response,
\* the store after it, and what it called (fx).
sortProducts(docs, k, q, dbFails) ==
  LET o == OrderOrDefault(q)
  IN IF o.t # "string"
     THEN \* .toLowerCase is not a function: a TypeError, caught below
          [resp |-> Reply(500, TRUE, <<"toLowerCase is not a function">>, << >>),
           docs |-> docs, fx |-> NoFx]
     ELSE LET ord == ToLowerCase(o.s)
          IN IF k \notin validKeys
             THEN [resp |-> Reply(400, TRUE,
                                  <<"Invalid sort key. Use one of: ",
                                    "name", "category", "price", "quantity">>, << >>),
                   docs |-> docs, fx |-> NoFx]
             ELSE IF ord \notin {StrAsc, StrDesc}
             THEN [resp |-> Reply(400, TRUE,
                                  <<"Invalid order. Use ", "asc", " or ", "desc">>, << >>),
                   docs |-> docs, fx |-> NoFx]
             ELSE IF dbFails
             THEN [resp |-> Reply(500, TRUE, <<"store failure">>, << >>),
                   docs |-> docs, fx |-> [NoFx EXCEPT !.find = TRUE]]
             ELSE [resp |-> Reply(200, FALSE, << >>, SortDocs(docs, k, OrderName(ord))),
                   docs |-> docs,
                   fx |-> [NoFx EXCEPT !.find = TRUE,
                                       !.quickSort = <<(<<k, OrderName(ord)>>)>>]]

\* Variant: the fetched documents are searched in store order.
SortedItems_storeOrder(docs, k) == Lean(docs, k)

\* items = quickSort(items, key, "asc")
SortedItems(docs, k) == quickSort(Lean(docs, k), k, "asc")

\* Variant: the converted number is used without the Number.isNaN guard.
SearchValue_unguarded(k, v) ==
  IF k \in {"price", "quantity"}
  THEN [ok |-> TRUE, val |-> IF NumberOf(v).nan THEN Text(v) ELSE Num(NumberOf(v).n)]
  ELSE [ok |-> TRUE, val |-> Text(v)]

\* searchValue: Number(value) for the numeric keys, the text itself otherwise.
SearchValue(k, v) ==
  IF k \in {"price", "quantity"}
  THEN [ok |-> ~NumberOf(v).nan, val |-> Num(NumberOf(v).n)]
  ELSE [ok |-> TRUE, val |-> Text(v)]

\* GET /api/products/search/:key/:value
searchProduct(docs, k, v, dbFails) ==
  IF k \notin validKeys
  THEN [resp |-> Reply(400, TRUE,
                       <<"Invalid search key. Use one of: ",
                         "name", "category", "price", "quantity">>, << >>),
        docs |-> docs, fx |-> NoFx]
  ELSE IF ~SearchValue(k, v).ok
  THEN [resp |-> Reply(400, TRUE, <<k, " must be a number">>, << >>),
        docs |-> docs, fx |-> NoFx]
  ELSE IF dbFails
  THEN [resp |-> Reply(500, TRUE, <<"store failure">>, << >>),
        docs |-> docs, fx |-> [NoFx EXCEPT !.find = TRUE]]
  ELSE LET sv == SearchValue(k, v).val
           items == SortedItems(docs, k)
           found == binarySearch(items, k, sv)
           called == [NoFx EXCEPT !.find = TRUE,
                                  !.quickSort = <<(<<k, "asc">>)>>,
                                  !.binarySearch = <<[items |-> items, key |-> k, value |-> sv]>>]
       IN IF found.chan = "throw"
          THEN [resp |-> Reply(500, TRUE, <<"search failure">>, << >>),
                docs |-> docs, fx |-> called]
          ELSE IF found.val.ref # "object"
          THEN [resp |-> Reply(404, FALSE, <<"Product not found">>, << >>),
                docs |-> docs, fx |-> called]
          ELSE [resp |-> Reply(200, FALSE, << >>, <<DocById(docs, found.val.id)>>),
                docs |-> docs, fx |-> called]

\* GET /api/products
getProducts(docs, dbFails) ==
  IF dbFails
  THEN [resp |-> Reply(500, TRUE, <<"store failure">>, << >>),
        docs |-> docs, fx |-> [NoFx EXCEPT !.find = TRUE]]
  ELSE [resp |-> Reply(200, FALSE, << >>, docs),
        docs |-> docs, fx |-> [NoFx EXCEPT !.find = TRUE]]

NoDoc == Doc(0, << >>, << >>, 0, 0, FALSE)

\* Product.create({name, category, price, quantity}): setters, validation,
\* then the insert; chan is "throw" when validation or the store rejects.
ProductCreate(docs, nid, b, dbFails) ==
  LET d == Doc(nid, SetName(b.name.s), SetCategory(b.category.s),
               b.price.n, b.quantity.n, FALSE)
  IN IF ~SchemaValid(d)
     THEN [chan |-> "throw", doc |-> NoDoc, docs |-> docs]
     ELSE IF dbFails
     THEN [chan |-> "throw", doc |-> NoDoc, docs |-> docs]
     ELSE [chan |-> "return", doc |-> d, docs |-> Append(docs, d)]

\* POST /api/products
createProduct(docs, nid, b, dbFails) ==
  IF ~Truthy(b.name) \/ ~Truthy(b.category) \/ Nullish(b.price) \/ Nullish(b.quantity)
  THEN [resp |-> Reply(400, TRUE, <<"name, category, price, and quantity are required">>, << >>),
        docs |-> docs, fx |-> NoFx]
  ELSE IF b.name.t # "string" \/ b.category.t # "string"
  THEN [resp |-> Reply(400, TRUE, <<"name and category must be strings">>, << >>),
        docs |-> docs, fx |-> NoFx]
  ELSE IF b.price.t # "number" \/ b.quantity.t # "number"
  THEN [resp |-> Reply(400, TRUE, <<"price and quantity must be numbers">>, << >>),
        docs |-> docs, fx |-> NoFx]
  ELSE IF b.price.n < 0 \/ b.quantity.n < 0
  THEN [resp |-> Reply(400, TRUE, <<"price and quantity cannot be negative">>, << >>),
        docs |-> docs, fx |-> NoFx]
  ELSE LET c == ProductCreate(docs, nid, b, dbFails)
       IN IF c.chan = "throw"
          THEN [resp |-> Reply(500, TRUE, <<"create failure">>, << >>),
                docs |-> c.docs, fx |-> [NoFx EXCEPT !.write = TRUE]]
          ELSE [resp |-> Reply(201, FALSE, << >>, <<c.doc>>),
                docs |-> c.docs, fx |-> [NoFx EXCEPT !.write = TRUE]]

\* Product.findById(id): a malformed id is a CastError, a failing store
\* rejects, an id with no product gives null (found = FALSE).
FindById(docs, i, dbFails) ==
  IF ~IsObjectId(i) \/ dbFails
  THEN [chan |-> "throw", found |-> FALSE, doc |-> NoDoc, docs |-> docs]
  ELSE IF ~HasId(docs, i)
  THEN [chan |-> "return", found |-> FALSE, doc |-> NoDoc, docs |-> docs]
  ELSE [chan |-> "return", found |-> TRUE, doc |-> DocById(docs, i), docs |-> docs]

\* GET /api/products/:id
getProductById(docs, i, dbFails) ==
  LET r == FindById(docs, i, dbFails)
  IN IF r.chan = "throw"
     THEN [resp |-> Reply(400, TRUE, <<" Invalid product ID">>, << >>),
           docs |-> docs, fx |-> [NoFx EXCEPT !.find = TRUE]]
     ELSE IF ~r.found
     THEN [resp |-> Reply(404, TRUE, <<"Product not found">>, << >>),
           docs |-> docs, fx |-> [NoFx EXCEPT !.find = TRUE]]
     ELSE [resp |-> Reply(200, FALSE, << >>, <<r.doc>>),
           docs |-> docs, fx |-> [NoFx EXCEPT !.find = TRUE]]

\* The updates object: a key is set only for a field the body carries
\* (Undef marks a key that is not set); category is lower-cased.
Updates(b) ==
  [price |-> IF Nullish(b.price) THEN Undef ELSE b.price,
   quantity |-> IF Nullish(b.quantity) THEN Undef ELSE b.quantity,
   category |-> IF Nullish(b.category) THEN Undef
                ELSE Text(ToLowerCase(b.category.s))]

\* Variant: an update rewrites every field, a key that is not set as its
\* default.
ApplyUpdates_replace(d, u) ==
  Doc(d.id, d.name,
      IF u.category.t = "undefined" THEN << >> ELSE SetCategory(u.category.s),
      IF u.price.t = "undefined" THEN 0 ELSE u.price.n,
      IF u.quantity.t = "undefined" THEN 0 ELSE u.quantity.n,
      TRUE)

\* $set of the keys that are set, through the schema setters, with the
\* updatedAt stamp of timestamps: true.
ApplyUpdates(d, u) ==
  Doc(d.id, d.name,
      IF u.category.t = "undefined" THEN d.category ELSE SetCategory(u.category.s),
      IF u.price.t = "undefined" THEN d.price ELSE u.price.n,
      IF u.quantity.t = "undefined" THEN d.quantity ELSE u.quantity.n,
      TRUE)

\* Product.findByIdAndUpdate(id, updates, {new: true}): no validators run.
FindByIdAndUpdate(docs, i, u, dbFails) ==
  IF ~IsObjectId(i) \/ dbFails
  THEN [chan |-> "throw", found |-> FALSE, doc |-> NoDoc, docs |-> docs]
  ELSE IF ~HasId(docs, i)
  THEN [chan |-> "return", found |-> FALSE, doc |-> NoDoc, docs |-> docs]
  ELSE LET nd == ApplyUpdates(DocById(docs, i), u)
       IN [chan |-> "return", found |-> TRUE, doc |-> nd,
           docs |-> [j \in DOMAIN docs |-> IF docs[j].id = i THEN nd ELSE docs[j]]]

\* Variant: the checks of the sign are missing.
UpdateCheck_noSign(b) ==
  IF ~Nullish(b.price) /\ b.price.t # "number" THEN <<"price must be a number">>
  ELSE IF ~Nullish(b.quantity) /\ b.quantity.t # "number" THEN <<"quantity must be a number">>
  ELSE IF ~Nullish(b.category) /\ b.category.t # "string" THEN <<"category must be a string">>
  ELSE IF Nullish(b.price) /\ Nullish(b.quantity) /\ Nullish(b.category)
  THEN <<"Provide at least one of: price, quantity, category">>
  ELSE << >>

\* Variant: the checks of a field are skipped when an earlier field passed.
UpdateCheck_firstOnly(b) ==
  IF ~Nullish(b.price) /\ b.price.t # "number" THEN <<"price must be a number">>
  ELSE IF ~Nullish(b.price) /\ b.price.n < 0 THEN <<"price cannot be negative">>
  ELSE IF ~Nullish(b.price) THEN << >>
  ELSE IF ~Nullish(b.quantity) /\ b.quantity.t # "number" THEN <<"quantity must be a number">>
  ELSE IF ~Nullish(b.quantity) /\ b.quantity.n < 0 THEN <<"quantity cannot be negative">>
  ELSE IF ~Nullish(b.quantity) THEN << >>
  ELSE IF ~Nullish(b.category) /\ b.category.t # "string" THEN <<"category must be a string">>
  ELSE IF Nullish(b.category)
  THEN <<"Provide at least one of: price, quantity, category">>
  ELSE << >>

\* The body checks of updateProduct in order: the first error message, or
\* the empty sequence when the body passes.
UpdateCheck(b) ==
  IF ~Nullish(b.price) /\ b.price.t # "number" THEN <<"price must be a number">>
  ELSE IF ~Nullish(b.price) /\ b.price.n < 0 THEN <<"price cannot be negative">>
  ELSE IF ~Nullish(b.quantity) /\ b.quantity.t # "number" THEN <<"quantity must be a number">>
  ELSE IF ~Nullish(b.quantity) /\ b.quantity.n < 0 THEN <<"quantity cannot be negative">>
  ELSE IF ~Nullish(b.category) /\ b.category.t # "string" THEN <<"category must be a string">>
  ELSE IF Nullish(b.price) /\ Nullish(b.quantity) /\ Nullish(b.category)
  THEN <<"Provide at least one of: price, quantity, category">>
  ELSE << >>

\* PUT /api/products/:id
updateProduct(docs, i, b, dbFails) ==
  IF UpdateCheck(b) # << >>
  THEN [resp |-> Reply(400, TRUE, UpdateCheck(b), << >>), docs |-> docs, fx |-> NoFx]
  ELSE LET r == FindByIdAndUpdate(docs, i, Updates(b), dbFails)
       IN IF r.chan = "throw"
          THEN [resp |-> Reply(400, TRUE, <<"invalid product ID">>, << >>),
                docs |-> r.docs, fx |-> [NoFx EXCEPT !.write = TRUE]]
          ELSE IF ~r.found
          THEN [resp |-> Reply(404, TRUE, <<"Product not found">>, << >>),
                docs |-> r.docs, fx |-> [NoFx EXCEPT !.write = TRUE]]
          ELSE [resp |-> Reply(200, FALSE, <<"Product updated">>, <<r.doc>>),
                docs |-> r.docs, fx |-> [NoFx EXCEPT !.write = TRUE]]

\* Product.findByIdAndDelete(id)
FindByIdAndDelete(docs, i, dbFails) ==
  IF ~IsObjectId(i) \/ dbFails
  THEN [chan |-> "throw", found |-> FALSE, doc |-> NoDoc, docs |-> docs]
  ELSE IF ~HasId(docs, i)
  THEN [chan |-> "return", found |-> FALSE, doc |-> NoDoc, docs |-> docs]
  ELSE [chan |-> "return", found |-> TRUE, doc |-> DocById(docs, i),
        docs |-> SelectSeq(docs, LAMBDA d : d.id # i)]

\* DELETE /api/products/:id
deleteProduct(docs, i, dbFails) ==
  LET r == FindByIdAndDelete(docs, i, dbFails)
  IN IF r.chan = "throw"
     THEN [resp |-> Reply(400, TRUE, <<"Invalid product ID">>, << >>),
           docs |-> r.docs, fx |-> [NoFx EXCEPT !.write = TRUE]]
     ELSE IF ~r.found
     THEN [resp |-> Reply(404, TRUE, <<"Product not found">>, << >>),
           docs |-> r.docs, fx |-> [NoFx EXCEPT !.write = TRUE]]
     ELSE [resp |-> [Reply(200, FALSE, <<"Product deleted">>, << >>) EXCEPT !.id = r.doc.id],
           docs |-> r.docs, fx |-> [NoFx EXCEPT !.write = TRUE]]

\* ------------------------------------------------------------------- state
VARIABLES
  pc,       \* "ready" (an array call is next), "operands" (a comparator call is
            \* next), "compared", "sorted", "resorted", "searched"
  arr,      \* the caller's array
  key,      \* the key of the call
  order,    \* the direction of the last quickSort call
  sorted,   \* what quickSort returned
  calls,    \* <<before, after>> of every quickSort call made
  resorted, \* quickSort of sorted
  from,     \* which array binarySearch was given: "input" or "sorted"
  value,    \* the value searched
  found,    \* what binarySearch returned
  steps,    \* the iterations of that binarySearch call
  opA, opB, \* compareByKey's operands
  cmpRes,   \* what compareByKey returned
  argKind,  \* what quickSort's first argument is (ArgKinds)
  sortInfo, \* of the last quickSort call: orderArg (the third argument as
            \* passed), chan, alias, cmps, left, right, depth
  store,    \* the products collection, in insertion order
  nextId,   \* the id the next created product gets
  req,      \* the last request
  resp,     \* the response to it
  fx,       \* what its handler called
  before,   \* the collection as it was when the request arrived
  sys,      \* the process: uri (MONGODB_URI is set), db (the connection's
            \* readyState), wasConnected, failed (the connection attempt
            \* failed), listening, exit (the exit code, -1 while running)
  flight,   \* updateProduct requests in flight, past their body checks
  done      \* the updates of the requests that completed, in that order

coreVars == <<pc, arr, key, order, sorted, calls, resorted, from, value, found, steps,
              opA, opB, cmpRes, argKind, sortInfo>>

apiVars == <<store, nextId, req, resp, fx, before>>

auxVars == <<sys, flight, done>>

vars == <<coreVars, apiVars, auxVars>>

\* Input arrays: element i is a distinct object carrying the key's property.
ArraysOf(k) ==
  UNION {{[i \in 1..n |-> Obj(i, k, f[i])] : f \in [1..n -> Values]} : n \in 0..MaxLen}

\* The process before connectDB is called.
Process(u) ==
  [uri |-> u, db |-> "disconnected", wasConnected |-> FALSE, failed |-> FALSE,
   listening |-> FALSE, exit |-> -1]

Operands == {Obj(1, k, v) : k \in Keys, v \in Values} \cup {NullRec, UndefRec}

InitArray ==
  /\ sys = Process(TRUE)
  /\ pc = "ready"
  /\ key \in Keys
  /\ argKind = "array"
  /\ arr \in ArraysOf(key)
  /\ opA = NullRec /\ opB = NullRec

\* quickSort is about to be given something that is not an array.
InitNonArray ==
  /\ sys = Process(TRUE)
  /\ pc = "ready"
  /\ key \in Keys
  /\ argKind \in ArgKinds \ {"array"}
  /\ arr = << >>
  /\ opA = NullRec /\ opB = NullRec

InitOperands ==
  /\ sys = Process(TRUE)
  /\ pc = "operands"
  /\ key \in Keys
  /\ argKind = "array"
  /\ arr = << >>
  /\ opA \in Operands /\ opB \in Operands

\* node server.js: the app is set up, the collection is empty, connectDB is
\* about to be called with MONGODB_URI set or not.
InitApi ==
  /\ pc = "boot"
  /\ sys \in {Process(TRUE), Process(FALSE)}
  /\ key = "name"
  /\ argKind = "array"
  /\ arr = << >>
  /\ opA = NullRec /\ opB = NullRec

\* The service is running with one product stored; update requests for it
\* come next.
InitFlight ==
  /\ pc = "flight"
  /\ sys = [Process(TRUE) EXCEPT !.db = "connected", !.wasConnected = TRUE,
                                 !.listening = TRUE]
  /\ key = "name"
  /\ argKind = "array"
  /\ arr = << >>
  /\ opA = NullRec /\ opB = NullRec
  /\ store = <<Doc(1, StrApple, StrApple_lc, 5, 0, FALSE)>>
  /\ nextId = 2

Body(nm, cat, p, q) == [name |-> nm, category |-> cat, price |-> p, quantity |-> q]

NoBody == Body(Undef, Undef, Undef, Undef)

Request(o, k, v, q, i, b, f) ==
  [op |-> o, key |-> k, value |-> v, order |-> q, id |-> i, body |-> b, dbFails |-> f]

NoReq == Request("none", "", << >>, Undef, 0, NoBody, FALSE)

Init ==
  /\ order = "asc"
  /\ sorted = << >>
  /\ calls = {}
  /\ resorted = << >>
  /\ from = "input"
  /\ value = Undef
  /\ found = [chan |-> "return", val |-> NullRec]
  /\ steps = << >>
  /\ cmpRes = "none"
  /\ sortInfo = [orderArg |-> "undefined", chan |-> "return", alias |-> FALSE, cmps |-> 0,
                 left |-> << >>, right |-> << >>, depth |-> 0]
  /\ req = NoReq
  /\ resp = Reply(0, FALSE, << >>, << >>)
  /\ fx = NoFx
  /\ before = << >>
  /\ flight = << >>
  /\ done = << >>
  /\ \/ (InitArray \/ InitNonArray \/ InitOperands \/ InitApi) /\ store = << >> /\ nextId = 1
     \/ InitFlight

\* compareByKey(opA, opB, key)
Compare ==
  /\ pc = "operands"
  /\ cmpRes' = compareByKey(opA, opB, key)
  /\ pc' = "compared"
  /\ UNCHANGED <<arr, key, order, sorted, calls, resorted, from, value, found, steps, opA, opB,
                 argKind, sortInfo, apiVars, auxVars>>

\* sorted = quickSort(arr, key, o); o = "undefined" is the call without a
\* third argument.
Sort(o) ==
  /\ pc = "ready"
  /\ LET c == quickSortEntry(argKind, arr, key, o)
     IN /\ sorted' = c.ret
        /\ arr' = c.after
        /\ calls' = c.calls
        /\ sortInfo' = [orderArg |-> o, chan |-> c.chan, alias |-> c.alias, cmps |-> c.cmps,
                        left |-> c.left, right |-> c.right, depth |-> c.depth]
  /\ order' = DefaultOrder(o)
  /\ pc' = "sorted"
  /\ UNCHANGED <<key, resorted, from, value, found, steps, opA, opB, cmpRes, argKind, apiVars, auxVars>>

\* The caller later pushes an element onto the returned array; the input
\* array shows it only if the two are one array.
PushResult ==
  /\ pc = "sorted"
  /\ argKind = "array"
  /\ sortInfo.chan = "return"
  /\ sorted' = Append(sorted, NullRec)
  /\ arr' = IF sortInfo.alias THEN Append(arr, NullRec) ELSE arr
  /\ pc' = "pushed"
  /\ UNCHANGED <<key, order, calls, resorted, from, value, found, steps, opA, opB, cmpRes,
                 argKind, sortInfo, apiVars, auxVars>>

\* resorted = quickSort(sorted, key, order)
SortAgain ==
  /\ pc = "sorted"
  /\ argKind = "array"
  /\ sortInfo.orderArg # "undefined"
  /\ resorted' = quickSort(sorted, key, order)
  /\ pc' = "resorted"
  /\ UNCHANGED <<arr, key, order, sorted, calls, from, value, found, steps, opA, opB, cmpRes,
                 argKind, sortInfo, apiVars, auxVars>>

\* found = binarySearch(arr, key, v) on the input as given
SearchInput(v) ==
  /\ pc = "ready"
  /\ argKind = "array"
  /\ found' = binarySearch(arr, key, v)
  /\ steps' = binarySearchSteps(arr, key, v)
  /\ value' = v
  /\ from' = "input"
  /\ pc' = "searched"
  /\ UNCHANGED <<arr, key, order, sorted, calls, resorted, opA, opB, cmpRes,
                 argKind, sortInfo, apiVars, auxVars>>

\* found = binarySearch(quickSort(arr, key, "asc"), key, v)
SearchSorted(v) ==
  /\ pc = "sorted"
  /\ argKind = "array"
  /\ sortInfo.orderArg = "asc"
  /\ found' = binarySearch(sorted, key, v)
  /\ steps' = binarySearchSteps(sorted, key, v)
  /\ value' = v
  /\ from' = "sorted"
  /\ pc' = "searched"
  /\ UNCHANGED <<arr, key, order, sorted, calls, resorted, opA, opB, cmpRes,
                 argKind, sortInfo, apiVars, auxVars>>

\* ---------------------------------------------------------------- requests
OrderIn ==
  {Undef, Text(StrEmpty), ArrayVal, Text(StrUp)}
    \cup {Text(o) : o \in {StrAsc, StrAscUpper, StrAscMixed, StrDesc, StrDescUpper, StrDescMixed}}

\* <<key, order, store fails>> of the sort requests.
SortIn ==
  {<<"price", q, FALSE>> : q \in OrderIn}
    \cup {<<k, q, FALSE>> : k \in {"name", "category", "quantity"},
                            q \in {Undef, Text(StrDescUpper)}}
    \cup {<<"color", q, f>> : q \in {Undef, Text(StrUp), ArrayVal}, f \in BOOLEAN}
    \cup {<<"price", q, TRUE>> : q \in {Undef, Text(StrUp)}}

\* <<key, value, store fails>> of the search requests.
SearchIn ==
  {<<"price", v, FALSE>> : v \in {StrApple_lc, StrTen, StrZero, StrFive, StrBlank}}
    \cup {<<k, v, FALSE>> : k \in {"name", "category"}, v \in {StrApple_lc, StrTen}}
    \cup {<<"quantity", v, f>> : v \in {StrApple_lc, StrFive}, f \in BOOLEAN}
    \cup {<<"color", StrApple_lc, FALSE>>}

\* <<body, store fails>> of POST: the well-formed bodies, and a well-formed
\* one with one field missing, null, empty, blank, padded, of the wrong type
\* or negative.
CreateIn ==
  ({Body(Text(StrApple), Text(c), Num(p), Num(0)) : c \in {StrApple, StrTen}, p \in {0, 5}}
    \cup {Body(nm, Text(StrApple), Num(5), Num(0)) :
            nm \in {Undef, Text(StrEmpty), Text(StrBlank), Text(StrPadApple), Num(5)}}
    \cup {Body(Text(StrApple), c, Num(5), Num(0)) : c \in {Undef, Text(StrEmpty), Num(5)}}
    \cup {Body(Text(StrApple), Text(StrApple), p, Num(0)) :
            p \in {Undef, Null, Num(-5), Text(StrTen)}}
    \cup {Body(Text(StrApple), Text(StrApple), Num(5), q) :
            q \in {Undef, Null, Num(-5), Text(StrTen)}}
    \cup {NoBody}) \X {FALSE}
    \cup {<<Body(Text(StrApple), Text(StrApple), Num(5), Num(0)), TRUE>>}

\* Ids of requests: those handed out so far or next, and a malformed one.
IdIn == (1..MaxProducts) \cup {-1}

\* <<id, body, store fails>> of PUT: every subset of the three fields with
\* passing values, and one failing field alone or beside passing ones.
UpdateIn ==
  {<<i, Body(Undef, c, p, q), FALSE>> :
     i \in IdIn, c \in {Undef, Text(StrApple)}, p \in {Undef, Num(0)}, q \in {Undef, Num(5)}}
    \cup {<<1, Body(Undef, c, p, Undef), FALSE>> :
            c \in {Undef, Text(StrApple)}, p \in {Null, Num(-5), Text(StrTen)}}
    \cup {<<1, Body(Undef, Undef, p, q), FALSE>> :
            p \in {Undef, Num(0)}, q \in {Null, Num(-5), Text(StrTen)}}
    \cup {<<1, Body(Undef, Num(5), p, Undef), FALSE>> : p \in {Undef, Num(0)}}
    \cup {<<i, Body(Undef, Undef, Num(0), Undef), TRUE>> : i \in IdIn}

\* The handler runs to its response: r is its outcome, q the request.
Handle(r, q) ==
  /\ pc = "api"
  /\ sys.db # "connected" => q.dbFails
  /\ pc' = "replied"
  /\ req' = q
  /\ resp' = r.resp
  /\ store' = r.docs
  /\ fx' = r.fx
  /\ before' = store
  /\ UNCHANGED <<arr, key, order, sorted, calls, resorted, from, value, found, steps,
                 opA, opB, cmpRes, argKind, sortInfo, auxVars>>

SortProducts(k, q, f) ==
  /\ Handle(sortProducts(store, k, q, f), Request("sort", k, << >>, q, 0, NoBody, f))
  /\ UNCHANGED nextId

SearchProduct(k, v, f) ==
  /\ Handle(searchProduct(store, k, v, f), Request("search", k, v, Undef, 0, NoBody, f))
  /\ UNCHANGED nextId

GetProducts(f) ==
  /\ Handle(getProducts(store, f), Request("list", "", << >>, Undef, 0, NoBody, f))
  /\ UNCHANGED nextId

CreateProduct(b, f) ==
  /\ nextId <= MaxProducts
  /\ Handle(createProduct(store, nextId, b, f), Request("create", "", << >>, Undef, 0, b, f))
  /\ nextId' = IF Len(store') > Len(store) THEN nextId + 1 ELSE nextId

GetProductById(i, f) ==
  /\ Handle(getProductById(store, i, f), Request("get", "", << >>, Undef, i, NoBody, f))
  /\ UNCHANGED nextId

UpdateProduct(i, b, f) ==
  /\ Handle(updateProduct(store, i, b, f), Request("update", "", << >>, Undef, i, b, f))
  /\ UNCHANGED nextId

DeleteProduct(i, f) ==
  /\ Handle(deleteProduct(store, i, f), Request("delete", "", << >>, Undef, i, NoBody, f))
  /\ UNCHANGED nextId

\* The response is sent and the handler's locals are gone; the next request
\* finds only the collection.
Respond ==
  /\ pc = "replied"
  /\ pc' = "api"
  /\ req' = NoReq
  /\ resp' = Reply(0, FALSE, << >>, << >>)
  /\ fx' = NoFx
  /\ before' = << >>
  /\ UNCHANGED <<arr, key, order, sorted, calls, resorted, from, value, found, steps,
                 opA, opB, cmpRes, argKind, sortInfo, store, nextId, auxVars>>

\* ----------------------------------------------------------------- startup
\* connectDB, up to the await: without a uri the process exits with code 1.
ConnectStart(s) ==
  IF ~s.uri THEN [s EXCEPT !.exit = 1]
  ELSE [s EXCEPT !.db = "connecting"]

\* Variant: the catch of connectDB logs the error and returns.
OnConnectError_logsOnly(s) == [s EXCEPT !.db = "disconnected", !.failed = TRUE]

\* The catch of connectDB: the error is logged and the process exits with 1.
OnConnectError(s) == [s EXCEPT !.db = "disconnected", !.failed = TRUE, !.exit = 1]

\* Every step below is a step of the startup and of the running service.
SysStep(p, s) ==
  /\ pc' = p
  /\ sys' = s
  /\ UNCHANGED <<arr, key, order, sorted, calls, resorted, from, value, found, steps,
                 opA, opB, cmpRes, argKind, sortInfo, apiVars, flight, done>>

\* connectDB(process.env.MONGODB_URI) is called.
ConnectDB ==
  /\ pc = "boot"
  /\ SysStep(IF ConnectStart(sys).exit = 1 THEN "exited" ELSE "connecting",
             ConnectStart(sys))

\* mongoose.connect(uri) resolves; connectDB registers its listeners and
\* resolves.
ConnectOk ==
  /\ pc = "connecting"
  /\ SysStep("resolved", [sys EXCEPT !.db = "connected", !.wasConnected = TRUE])

\* mongoose.connect(uri) rejects.
ConnectError ==
  /\ pc = "connecting"
  /\ SysStep(IF OnConnectError(sys).exit = 1 THEN "exited" ELSE "resolved",
             OnConnectError(sys))

\* The then-callback of connectDB: app.listen(PORT).
Listen ==
  /\ pc = "resolved"
  /\ SysStep("api", [sys EXCEPT !.listening = TRUE])

\* The connection's "disconnected" event: a warning is logged, nothing else.
Disconnected ==
  /\ pc \in {"resolved", "api"}
  /\ sys.db = "connected"
  /\ SysStep(pc, [sys EXCEPT !.db = "disconnected"])

\* The connection's "reconnected" event.
Reconnected ==
  /\ pc \in {"resolved", "api"}
  /\ sys.db = "disconnected"
  /\ sys.wasConnected
  /\ SysStep(pc, [sys EXCEPT !.db = "connected"])

\* ------------------------------------------------------ requests in flight
\* updateProduct requests that overlap.
MaxInFlight == 2

\* Bodies of the overlapping PUTs: one field each, or two.
FlightIn ==
  {Body(Undef, Undef, Num(0), Undef), Body(Undef, Undef, Undef, Num(5)),
   Body(Undef, Text(StrTen), Undef, Undef), Body(Undef, Undef, Num(0), Num(5))}

\* Variant: the handler saves the document it saw on arrival, with its
\* updates applied, over the stored one.
WriteUpdate_savesSeen(docs, seen, i, u) ==
  IF ~HasId(docs, i) \/ ~HasId(seen, i)
  THEN FindByIdAndUpdate(docs, i, u, FALSE)
  ELSE LET nd == ApplyUpdates(DocById(seen, i), u)
       IN [chan |-> "return", found |-> TRUE, doc |-> nd,
           docs |-> [j \in DOMAIN docs |-> IF docs[j].id = i THEN nd ELSE docs[j]]]

\* The one store call of updateProduct, atomic on the document: the updates
\* are applied to the document as stored at that moment; seen, the
\* collection as it was when the request arrived, plays no part.
WriteUpdate(docs, seen, i, u) == FindByIdAndUpdate(docs, i, u, FALSE)

\* A PUT arrives and runs up to its await: the body passes the checks and
\* the updates object is built.
UpdateArrives(i, b) ==
  /\ pc = "flight"
  /\ Len(flight) + Len(done) < MaxInFlight
  /\ UpdateCheck(b) = << >>
  /\ flight' = Append(flight, [n |-> Len(flight) + Len(done) + 1, id |-> i,
                               updates |-> Updates(b), seen |-> store])
  /\ UNCHANGED <<coreVars, apiVars, sys, done>>

\* The store call of the k-th request in flight is served and the request
\* completes.
UpdateCompletes(k) ==
  /\ pc = "flight"
  /\ k \in DOMAIN flight
  /\ store' = WriteUpdate(store, flight[k].seen, flight[k].id, flight[k].updates).docs
  /\ done' = Append(done, [n |-> flight[k].n, id |-> flight[k].id,
                           updates |-> flight[k].updates])
  /\ flight' = [j \in 1..(Len(flight) - 1) |-> IF j < k THEN flight[j] ELSE flight[j + 1]]
  /\ UNCHANGED <<coreVars, nextId, req, resp, fx, before, sys>>

Next ==
  \/ Compare
  \/ \E o \in Orders \cup {"undefined"} : Sort(o)
  \/ PushResult
  \/ SortAgain
  \/ \E v \in Values : SearchInput(v)
  \/ \E v \in Values : SearchSorted(v)
  \/ \E x \in SortIn : SortProducts(x[1], x[2], x[3])
  \/ \E x \in SearchIn : SearchProduct(x[1], x[2], x[3])
  \/ \E f \in BOOLEAN : GetProducts(f)
  \/ \E x \in CreateIn : CreateProduct(x[1], x[2])
  \/ \E i \in IdIn, f \in BOOLEAN : GetProductById(i, f)
  \/ \E x \in UpdateIn : UpdateProduct(x[1], x[2], x[3])
  \/ \E i \in IdIn, f \in BOOLEAN : DeleteProduct(i, f)
  \/ Respond
  \/ ConnectDB
  \/ ConnectOk
  \/ ConnectError
  \/ Listen
  \/ Disconnected
  \/ Reconnected
  \/ \E b \in FlightIn : UpdateArrives(1, b)
  \/ \E k \in 1..MaxInFlight : UpdateCompletes(k)

Spec == Init /\ [][Next]_vars

\* ----------------------------------------------------------------- helpers
Range(S) == {S[i] : i \in DOMAIN S}

\* The multiset of the elements of a sequence.
SeqBag(S) == [x \in Range(S) |-> Cardinality({i \in DOMAIN S : S[i] = x})]

\* The coarse kind of a value: a number, or text/missing.
KindOf(v) == IF v.t = "number" THEN "number" ELSE "text"

\* All values under key k are of one kind.
Homogeneous(S, k) ==
  \A i, j \in DOMAIN S : KindOf(Get(S[i], k)) = KindOf(Get(S[j], k))

\* Adjacent pairs are in ascending order under the comparator.
SortedAsc(S, k) ==
  \A i \in 1..(Len(S) - 1) : compareByKey(S[i], S[i + 1], k) <= 0

\* The position of record x in S.
Pos(S, x) == CHOOSE i \in DOMAIN S : S[i] = x

\* The array binarySearch was given.
Searched == IF from = "input" THEN arr ELSE sorted

\* ------------------------------------------------------------------ claims

\* C1: quickSort(S, k, d) returns a permutation of S: same length, and every
\* record as many times as in S, for every S, k and d.
C1_Permutation ==
  /\ pc \in {"sorted", "resorted"} =>
       /\ Len(sorted) = Len(arr)
       /\ SeqBag(sorted) = SeqBag(arr)
  /\ pc = "resorted" =>
       /\ Len(resorted) = Len(sorted)
       /\ SeqBag(resorted) = SeqBag(sorted)

C1_Witness ==
  /\ pc = "sorted"
  /\ Len(arr) >= 3
  /\ sorted # arr
  /\ \E i, j \in DOMAIN arr : i # j /\ compareByKey(arr[i], arr[j], key) = 0

\* C2: on an array homogeneous in kind under k, every adjacent pair of the
\* ascending result compares <= 0 and of the descending result >= 0.
C2_Ordering ==
  (pc = "sorted" /\ Homogeneous(arr, key)) =>
    \A i \in 1..(Len(sorted) - 1) :
      IF order = "asc"
      THEN compareByKey(sorted[i], sorted[i + 1], key) <= 0
      ELSE compareByKey(sorted[i], sorted[i + 1], key) >= 0

C2_Witness ==
  /\ pc = "sorted"
  /\ order = "desc"
  /\ Homogeneous(arr, key)
  /\ Len(arr) >= 3
  /\ sorted # arr
  /\ \E i \in 1..(Len(sorted) - 1) : compareByKey(sorted[i], sorted[i + 1], key) = 0
  /\ \E i \in 1..(Len(sorted) - 1) : compareByKey(sorted[i], sorted[i + 1], key) > 0

\* C3: after quickSort(S, k, d) the input array is unchanged, and so is the
\* argument of every recursive call.
C3_NonMutation ==
  pc \in {"sorted", "resorted", "searched"} /\ calls # {} =>
    /\ <<arr, arr>> \in calls
    /\ \A c \in calls : c[1] = c[2]

C3_Witness ==
  /\ pc = "sorted"
  /\ Len(arr) >= 3
  /\ sorted # arr
  /\ Cardinality(calls) >= 3

\* Equality of a record's value x with a searched value v: numeric for two
\* numbers, otherwise on the case-folded text.
ValEq(x, v) ==
  IF x.t = "number" /\ v.t = "number" THEN x.n = v.n
  ELSE /\ x.t # "number" /\ v.t # "number"
       /\ ToLowerCase(StringOf(Coalesce(x))) = ToLowerCase(StringOf(Coalesce(v)))

C6_IdempotentAnyArray ==
  (pc = "resorted" /\ order = "asc") =>
    /\ Len(resorted) = Len(sorted)
    /\ \A i \in DOMAIN sorted : Get(resorted[i], key) = Get(sorted[i], key)

\* C6 (amended): for every array S homogeneous in kind under k, sorting the
\* ascending result again gives the same value under k at every position.
C6_IdempotentHomogeneous ==
  (pc = "resorted" /\ order = "asc" /\ Homogeneous(arr, key)) =>
    /\ Len(resorted) = Len(sorted)
    /\ \A i \in DOMAIN sorted : Get(resorted[i], key) = Get(sorted[i], key)

C6_Witness ==
  /\ pc = "resorted"
  /\ order = "asc"
  /\ Homogeneous(arr, key)
  /\ Len(arr) >= 3
  /\ sorted # arr
  /\ \E i \in 1..(Len(sorted) - 1) : compareByKey(sorted[i], sorted[i + 1], key) = 0
  /\ \E i \in 1..(Len(sorted) - 1) : compareByKey(sorted[i], sorted[i + 1], key) < 0

\* The two operands' values under the key are of one kind.
SameKind(a, b) == KindOf(Get(a, key)) = KindOf(Get(b, key))

Absent(a) == a.ref # "object" \/ a.field # key \/ a.val \in {Undef, Null}

\* The operand carries a text value under the key.
IsText(a) == a.ref = "object" /\ a.field = key /\ a.val.t = "string"

\* C8: a missing or null value (or a null/undefined record) on either side is
\* compared as the empty string and never raises: two absent values compare
\* equal, an absent value is <= every text value.
C8_AbsentIsEmptyText ==
  pc = "compared" =>
    /\ cmpRes \in {-1, 0, 1}
    /\ (Absent(opA) /\ Absent(opB)) => cmpRes = 0
    /\ (Absent(opA) /\ IsText(opB)) =>
         /\ cmpRes <= 0
         /\ cmpRes = 0 <=> opB.val.s = << >>
    /\ (IsText(opA) /\ Absent(opB)) =>
         /\ cmpRes >= 0
         /\ cmpRes = 0 <=> opA.val.s = << >>
    /\ Absent(opA) => cmpRes = compareByKey(Obj(1, key, Text(StrEmpty)), opB, key)
    /\ Absent(opB) => cmpRes = compareByKey(opA, Obj(1, key, Text(StrEmpty)), key)

C8_Witness ==
  /\ pc = "compared"
  /\ opA = NullRec
  /\ IsText(opB)
  /\ opB.val = Text(StrApple)
  /\ cmpRes = -1

\* The lexicographic ordering of two strings as -1, 0, +1.
LexOrder(x, y) == IF StrLess(x, y) THEN -1 ELSE IF StrLess(y, x) THEN 1 ELSE 0

\* The text a non-number value is compared as.
TextOf(v) == IF v.t = "string" THEN v.s ELSE << >>

\* C9: with exactly one number among the two values, compareByKey returns
\* the lexicographic ordering of the number's decimal text and the other
\* side's text, both lower-cased; a number and its digits compare equal.
C9_MixedFallsToText ==
  pc = "compared" =>
    LET va == Get(opA, key)
        vb == Get(opB, key)
    IN /\ (va.t = "number" /\ vb.t # "number") =>
            /\ cmpRes = LexOrder(ToLowerCase(Decimal(va.n)), ToLowerCase(TextOf(vb)))
            /\ (vb.t = "string" /\ vb.s = Decimal(va.n)) => cmpRes = 0
       /\ (va.t # "number" /\ vb.t = "number") =>
            /\ cmpRes = LexOrder(ToLowerCase(TextOf(va)), ToLowerCase(Decimal(vb.n)))
            /\ (va.t = "string" /\ va.s = Decimal(vb.n)) => cmpRes = 0

C9_Witness ==
  /\ pc = "compared"
  /\ Get(opA, key) = Num(5)
  /\ Get(opB, key) = Text(StrTen)
  /\ cmpRes = 1

C11_BaseCaseFreshCopy ==
  /\ (pc = "sorted" /\ argKind = "array" /\ Len(arr) <= 1) =>
       /\ sortInfo.chan = "return"
       /\ sorted = arr
       /\ sortInfo.cmps = 0
       /\ ~sortInfo.alias
  /\ (pc = "pushed" /\ Len(sorted) <= 2) =>
       /\ Len(arr) = Len(sorted) - 1
       /\ sorted = Append(arr, NullRec)

C11_Witness ==
  /\ pc = "pushed"
  /\ Len(arr) = 1
  /\ Len(sorted) = 2
  /\ sorted[1] = arr[1]

\* C12: when the first argument is not an array (null, undefined, a number, a
\* string, a plain object) quickSort returns an empty array and raises
\* nothing, for every key and direction.
C12_NonArrayGivesEmpty ==
  (pc = "sorted" /\ argKind # "array") =>
    /\ sortInfo.chan = "return"
    /\ sorted = << >>

C12_Witness ==
  /\ pc = "sorted"
  /\ argKind = "string"
  /\ sortInfo.orderArg = "desc"
  /\ sorted = << >>

\* ------------------------------------------------------- claims on requests
\* The last request was op and its response is written.
Replied(op) == pc = "replied" /\ req.op = op

NumericKey(k) == k \in {"price", "quantity"}

\* d[k] equals the requested text v: numerically for the numeric keys,
\* ignoring case for the text keys.
Matches(d, k, v) ==
  IF NumericKey(k)
  THEN ~NumberOf(v).nan /\ FieldOf(d, k).n = NumberOf(v).n
  ELSE ToLowerCase(FieldOf(d, k).s) = ToLowerCase(v)

ValidSearch == req.key \in validKeys /\ (NumericKey(req.key) => ~NumberOf(req.value).nan)

\* C13: for a valid key and value (the store read succeeding) searchProduct
\* runs binarySearch on quickSort(items, key, "asc") of the fetched
\* collection; it answers 200 with a stored record matching the value exactly
\* when the collection holds one, and otherwise 404 with the body
\* {message: "Product not found"}, which has no error field, unlike every
\* 400 and 500 of the handler.
C13_SearchEndpoint ==
  /\ (Replied("search") /\ ValidSearch /\ ~req.dbFails) =>
       /\ fx.quickSort = <<(<<req.key, "asc">>)>>
       /\ Len(fx.binarySearch) = 1
       /\ fx.binarySearch[1].key = req.key
       /\ fx.binarySearch[1].items = quickSort(Lean(before, req.key), req.key, "asc")
       /\ resp.status \in {200, 404}
       /\ resp.status = 200 <=>
            \E i \in DOMAIN before : Matches(before[i], req.key, req.value)
       /\ resp.status = 200 =>
            /\ Len(resp.docs) = 1
            /\ \E i \in DOMAIN before : resp.docs[1] = before[i]
            /\ Matches(resp.docs[1], req.key, req.value)
       /\ resp.status = 404 =>
            /\ ~resp.error
            /\ resp.text = <<"Product not found">>
            /\ resp.docs = << >>
  /\ (Replied("search") /\ resp.status \in {400, 500}) => resp.error

C13_Witness ==
  /\ Replied("search")
  /\ req.key = "price"
  /\ resp.status = 200
  /\ Len(before) = 2
  /\ before[1].price > before[2].price
  /\ resp.docs[1] = before[2]

\* The order parameter is given and is not asc or desc in any letter case.
InvalidOrder(q) ==
  /\ q.t # "undefined"
  /\ ~(q.t = "string" /\ ToLowerCase(q.s) \in {StrAsc, StrDesc})

\* C14: a sort request whose key is not one of name, category, price,
\* quantity, or whose order parameter is not asc/desc (ignoring case), is
\* answered 400 with the allowed values named, without a read of the store
\* and without a quickSort call; no such request is answered 500.
C14_InvalidSortIs400 ==
  (Replied("sort") /\ (req.key \notin validKeys \/ InvalidOrder(req.order))) =>
    /\ resp.status = 400
    /\ resp.error
    /\ \/ {"name", "category", "price", "quantity"} \subseteq Range(resp.text)
       \/ {"asc", "desc"} \subseteq Range(resp.text)
    /\ ~fx.find
    /\ fx.quickSort = << >>
    /\ store = before

\* C15: the direction defaults to ascending and is matched ignoring case.
\* sortProducts without an order parameter, and with ASC or Asc, returns what
\* it returns for asc; with DESC or Desc what it returns for desc; quickSort
\* without its third argument returns what it returns for "asc".
C15_DirectionDefaultAndCase ==
  /\ (Replied("sort") /\ req.key \in validKeys /\ ~req.dbFails) =>
       /\ req.order \in {Undef, Text(StrAsc), Text(StrAscUpper), Text(StrAscMixed)} =>
            /\ resp.status = 200
            /\ resp.docs = sortProducts(before, req.key, Text(StrAsc), FALSE).resp.docs
            /\ resp.docs = SortDocs(before, req.key, "asc")
            /\ fx.quickSort = <<(<<req.key, "asc">>)>>
       /\ req.order \in {Text(StrDesc), Text(StrDescUpper), Text(StrDescMixed)} =>
            /\ resp.status = 200
            /\ resp.docs = sortProducts(before, req.key, Text(StrDesc), FALSE).resp.docs
            /\ resp.docs = SortDocs(before, req.key, "desc")
            /\ fx.quickSort = <<(<<req.key, "desc">>)>>
  /\ (pc = "sorted" /\ argKind = "array" /\ sortInfo.orderArg = "undefined") =>
       /\ sortInfo.chan = "return"
       /\ sorted = quickSort(arr, key, "asc")

C15_Witness ==
  /\ Replied("sort")
  /\ req.key = "price"
  /\ req.order = Undef
  /\ resp.status = 200
  /\ Len(before) = 2
  /\ before[1].price > before[2].price
  /\ resp.docs = <<before[2], before[1]>>

\* C16: on key price or quantity a value that is not a number is answered
\* 400 "<key> must be a number" with no read of the store and no quickSort or
\* binarySearch call, and every accepted value reaches binarySearch as that
\* number; on key name or category the value reaches it unchanged as text.
C16_SearchValueConversion ==
  /\ (Replied("search") /\ NumericKey(req.key) /\ NumberOf(req.value).nan) =>
       /\ resp.status = 400
       /\ resp.error
       /\ resp.text = <<req.key, " must be a number">>
       /\ ~fx.find
       /\ fx.quickSort = << >>
       /\ fx.binarySearch = << >>
  /\ (Replied("search") /\ NumericKey(req.key) /\ ~NumberOf(req.value).nan) =>
       /\ resp.status # 400
       /\ ~req.dbFails => Len(fx.binarySearch) = 1
       /\ \A i \in DOMAIN fx.binarySearch :
            /\ fx.binarySearch[i].value.t = "number"
            /\ fx.binarySearch[i].value.n = NumberOf(req.value).n
  /\ (Replied("search") /\ req.key \in {"name", "category"}) =>
       /\ resp.status # 400
       /\ ~req.dbFails => Len(fx.binarySearch) = 1
       /\ \A i \in DOMAIN fx.binarySearch : fx.binarySearch[i].value = Text(req.value)

C16_Witness ==
  /\ Replied("search")
  /\ req.key = "price"
  /\ req.value = StrApple_lc
  /\ resp.status = 400
  /\ Len(before) = 2

\* The request is invalid client input for the handlers addressing one
\* product: a malformed id, or an update body that fails its checks.
InvalidById == ~IsObjectId(req.id) \/ (req.op = "update" /\ UpdateCheck(req.body) # << >>)

\* C17: the status policy of the handlers addressing one product: 400 only
\* for invalid client input, 404 when the addressed product does not exist,
\* 500 when the store fails; a store failure on a well-formed id in
\* getProductById, updateProduct or deleteProduct is answered 500, not 400.
C17_StatusPolicy ==
  (pc = "replied" /\ req.op \in {"get", "update", "delete"}) =>
    /\ resp.status = 400 => InvalidById
    /\ resp.status = 404 => ~HasId(before, req.id)
    /\ (req.dbFails /\ ~InvalidById) => resp.status = 500

\* The body is one createProduct is to reject: name or category missing or
\* empty or not a string, price or quantity null, undefined, not a number or
\* negative.
Rejected(b) ==
  \/ Nullish(b.name) \/ b.name = Text(StrEmpty) \/ b.name.t # "string"
  \/ Nullish(b.category) \/ b.category = Text(StrEmpty) \/ b.category.t # "string"
  \/ Nullish(b.price) \/ b.price.t # "number" \/ b.price.n < 0
  \/ Nullish(b.quantity) \/ b.quantity.t # "number" \/ b.quantity.n < 0

\* C18: createProduct answers 400 and leaves the store as it was, without a
\* Product.create call, for a body it is to reject; for every other body
\* (the store working) it adds exactly one record holding the four given
\* fields, as the schema stores them, and answers 201.
C18_CreateValidation ==
  /\ (Replied("create") /\ Rejected(req.body)) =>
       /\ resp.status = 400
       /\ store = before
       /\ ~fx.write
  /\ (Replied("create") /\ ~Rejected(req.body) /\ ~req.dbFails) =>
       /\ resp.status = 201
       /\ Len(store) = Len(before) + 1
       /\ SubSeq(store, 1, Len(before)) = before
       /\ store[Len(store)].name = Trim(req.body.name.s)
       /\ store[Len(store)].category = ToLowerCase(Trim(req.body.category.s))
       /\ store[Len(store)].price = req.body.price.n
       /\ store[Len(store)].quantity = req.body.quantity.n
       /\ resp.docs = <<store[Len(store)]>>

\* A field of an update body is supplied when it is neither absent nor null.
Supplied(v) == ~Nullish(v)

\* A supplied field fails its type or non-negativity check.
FieldFails(b) ==
  \/ Supplied(b.price) /\ (b.price.t # "number" \/ b.price.n < 0)
  \/ Supplied(b.quantity) /\ (b.quantity.t # "number" \/ b.quantity.n < 0)
  \/ Supplied(b.category) /\ b.category.t # "string"

NoneSupplied(b) == ~Supplied(b.price) /\ ~Supplied(b.quantity) /\ ~Supplied(b.category)

\* C19: updateProduct is all-or-nothing. If one supplied field among price,
\* quantity, category fails its check, or none is supplied, the answer is 400
\* and the store is as it was, whatever the other fields are; an update that
\* passes the checks and names a well-formed id with no product is answered
\* 404 and changes nothing.
C19_UpdateAllOrNothing ==
  /\ (Replied("update") /\ (FieldFails(req.body) \/ NoneSupplied(req.body))) =>
       /\ resp.status = 400
       /\ store = before
       /\ ~fx.write
  /\ (Replied("update") /\ ~FieldFails(req.body) /\ ~NoneSupplied(req.body)
        /\ IsObjectId(req.id) /\ ~HasId(before, req.id) /\ ~req.dbFails) =>
       /\ resp.status = 404
       /\ store = before

C19_Witness ==
  /\ Replied("update")
  /\ req.body.price = Num(0)
  /\ req.body.quantity = Num(-5)
  /\ HasId(before, req.id)
  /\ resp.status = 400
  /\ store = before

\* Field f of the product is as it was, or the body supplied it.
KeptOrSent(f, old, new) ==
  \/ new[f] = old[f]
  \/ f \in {"price", "quantity", "category"} /\ Supplied(req.body[f])

\* The other products are as they were and in their places.
OthersKept ==
  /\ Len(store) = Len(before)
  /\ \A j \in DOMAIN before : before[j].id # req.id => store[j] = before[j]

\* C20 as stated: a successful update changes, on the product with the given
\* id, only fields among price, quantity, category that the body supplied;
\* its name, every field not sent and every other product are as they were;
\* the response carries the product as it is after the update.
C20_UpdateFrameAllFields ==
  (Replied("update") /\ resp.status = 200) =>
    /\ HasId(before, req.id)
    /\ OthersKept
    /\ \A f \in {"id", "name", "category", "price", "quantity", "updated"} :
         KeptOrSent(f, DocById(before, req.id), DocById(store, req.id))
    /\ resp.docs = <<DocById(store, req.id)>>

\* C20, amended: the same, the updatedAt stamp aside, which every successful
\* update sets although the client does not send it; a supplied field holds
\* the sent value afterwards (category trimmed and lower-cased).
C20_UpdateFrame ==
  (Replied("update") /\ resp.status = 200) =>
    /\ HasId(before, req.id)
    /\ OthersKept
    /\ \A f \in {"id", "name", "category", "price", "quantity"} :
         KeptOrSent(f, DocById(before, req.id), DocById(store, req.id))
    /\ DocById(store, req.id).updated
    /\ Supplied(req.body.price) => DocById(store, req.id).price = req.body.price.n
    /\ Supplied(req.body.quantity) => DocById(store, req.id).quantity = req.body.quantity.n
    /\ Supplied(req.body.category) =>
         DocById(store, req.id).category = ToLowerCase(Trim(req.body.category.s))
    /\ resp.docs = <<DocById(store, req.id)>>

C20_Witness ==
  /\ Replied("update")
  /\ resp.status = 200
  /\ Len(before) = 2
  /\ req.body = Body(Undef, Undef, Num(0), Undef)
  /\ DocById(before, req.id).price = 5
  /\ DocById(store, req.id).price = 0
  /\ DocById(before, req.id).category = StrTen
  /\ DocById(store, req.id).category = StrTen

\* ---------------------------------------------------------- claims on startup
\* What C21 says of the startup: listening only after connectDB succeeded;
\* without a uri, or after a failed attempt, exit code 1 and no listening.
StartupOrder ==
  /\ sys.listening => (sys.wasConnected /\ sys.exit = -1)
  /\ (~sys.uri /\ pc \notin {"boot"}) => (sys.exit = 1 /\ pc = "exited")
  /\ sys.failed => (sys.exit = 1 /\ pc = "exited")
  /\ sys.exit = 1 => ~sys.listening

C22_NonNegativeStock ==
  \A i \in DOMAIN store : store[i].price >= 0 /\ store[i].quantity >= 0

C22_Witness ==
  /\ Replied("update")
  /\ req.body.quantity = Num(-5)
  /\ resp.status = 400
  /\ nextId = 3
  /\ Len(store) = 1
  /\ store[1].updated

\* C23: whatever create and update requests were made, and in whatever letter
\* case they sent the category, the category of every stored product is
\* lower-case.
C23_CategoryLowerCase ==
  \A i \in DOMAIN store :
    \A j \in DOMAIN store[i].category : store[i].category[j] \notin 65..90

C23_Witness ==
  /\ Replied("update")
  /\ req.body.category = Text(StrApple)
  /\ resp.status = 200
  /\ DocById(before, req.id).category = StrTen
  /\ DocById(store, req.id).category = StrApple_lc

\* ------------------------------------------------- claims on the partition
\* An ascending quickSort call on an array of at least two records returned.
AscStep ==
  /\ pc = "sorted"
  /\ argKind = "array"
  /\ order = "asc"
  /\ Len(arr) >= 2

\* The positions before the pivot whose record compares equal to the pivot.
Ties == {i \in 1..(Len(arr) - 1) : compareByKey(arr[i], arr[Len(arr)], key) = 0}

\* All records of the input compare equal to one another.
AllEqual == \A i, j \in DOMAIN arr : compareByKey(arr[i], arr[j], key) = 0

ComparesEqual(x, v) ==
  IF x.t = "number" /\ v.t = "number" THEN x.n = v.n
  ELSE ToLowerCase(StringOf(Coalesce(x))) = ToLowerCase(StringOf(Coalesce(v)))

\* C25: on every array, sorted or not, binarySearch raises nothing, and a
\* result other than null is a record of the input array whose value under
\* the key compares equal to the searched value; it is never the probe.
C25_SearchNeverWrong ==
  pc = "searched" =>
    /\ found.chan = "return"
    /\ found.val # NullRec =>
         /\ \E i \in DOMAIN Searched : found.val = Searched[i]
         /\ found.val # Obj(0, key, value)
         /\ ComparesEqual(Get(found.val, key), value)
         /\ compareByKey(found.val, Obj(0, key, value), key) = 0

C25_Witness ==
  /\ pc = "searched"
  /\ from = "input"
  /\ Len(arr) = 3
  /\ ~SortedAsc(arr, key)
  /\ found.val = arr[2]
  /\ \E i \in DOMAIN arr : /\ compareByKey(arr[i], Obj(0, key, Num(5)), key) = 0
                           /\ binarySearch(arr, key, Num(5)).val = NullRec

\* floor(log2(n)) for n >= 1.
RECURSIVE Log2Floor(_)
Log2Floor(n) == IF n <= 1 THEN 0 ELSE 1 + Log2Floor(n \div 2)

\* C26: binarySearch terminates. The first window is the whole array; the
\* midpoint of every iteration lies inside its window; an iteration that
\* does not return leaves the part of its window on one side of the
\* midpoint; and the loop makes at most floor(log2(n)) + 1 comparisons on an
\* array of n records.
C26_WindowShrinks ==
  pc = "searched" =>
    /\ found.chan = "return"
    /\ Len(Searched) = 0 => steps = << >>
    /\ Len(Searched) >= 1 =>
         /\ Len(steps) >= 1
         /\ steps[1].left = 0 /\ steps[1].right = Len(Searched) - 1
         /\ Len(steps) <= Log2Floor(Len(Searched)) + 1
    /\ \A k \in DOMAIN steps :
         /\ steps[k].left <= steps[k].mid
         /\ steps[k].mid <= steps[k].right
    /\ \A k \in 1..(Len(steps) - 1) :
         \/ steps[k + 1].left = steps[k].mid + 1 /\ steps[k + 1].right = steps[k].right
         \/ steps[k + 1].left = steps[k].left /\ steps[k + 1].right = steps[k].mid - 1
    /\ found.val = NullRec =>
         (steps = << >> \/ steps[Len(steps)].left = steps[Len(steps)].right
                        \/ steps[Len(steps)].left = steps[Len(steps)].mid)

C26_Witness ==
  /\ pc = "searched"
  /\ Len(Searched) = 3
  /\ Len(steps) = 2
  /\ found.val = NullRec
  /\ steps[1].mid = 1
  /\ steps[2].left = 2

\* ------------------------------------------- claims on requests in flight
\* The value field f of the product has once the updates u are applied.
SentValue(u, f) ==
  IF f = "category" THEN ToLowerCase(Trim(u[f].s)) ELSE u[f].n

UpdateFields == {"price", "quantity", "category"}

\* C27: when updateProduct requests for one product overlap and set disjoint
\* fields, every one of their changes is in the store once all have
\* completed, whatever the order in which they are served: a field only one
\* request sent holds that request's value.
C27_NoLostUpdate ==
  (pc = "flight" /\ flight = << >>) =>
    \A a \in DOMAIN done : \A f \in UpdateFields :
      (/\ done[a].updates[f].t # "undefined"
       /\ \A b \in DOMAIN done : b # a => done[b].updates[f].t = "undefined")
      => DocById(store, done[a].id)[f] = SentValue(done[a].updates, f)

C27_Witness ==
  /\ pc = "flight"
  /\ flight = << >>
  /\ Len(done) = 2
  /\ done[1].n = 2 /\ done[2].n = 1
  /\ done[1].updates = Updates(Body(Undef, Undef, Undef, Num(5)))
  /\ done[2].updates = Updates(Body(Undef, Undef, Num(0), Undef))
  /\ store[1].price = 0
  /\ store[1].quantity = 5

====
